---- MODULE Spec2Model ----
(***************************************************************************)
(* Schema Builder (client/pages/Index.tsx): the field tree held in the     *)
(* `schema` state of Index, the FieldEditor handlers that edit it through  *)
(* the onUpdate/onDelete callback chain, the JSON schema derived from it    *)
(* by generateJsonSchema, and the copy-to-clipboard handler.                *)
(*                                                                         *)
(* A SchemaField is a record whose optional keys (description, properties, *)
(* items) are in its DOMAIN exactly when the JavaScript object has them.    *)
(* A path addresses a rendered FieldEditor: its first step is an index     *)
(* into `schema`, each later step is an index (>= 1) into the parent's     *)
(* `properties`, or 0 for the parent's `items`.  The isExpanded flag of an  *)
(* editor only hides its nested editors and starts out true: every nested  *)
(* editor can be brought on screen, so the flag is left out.               *)
(***************************************************************************)
EXTENDS Integers, Sequences, FiniteSets, TLC

VARIABLES schema, last, writes, toasts

vars == <<schema, last, writes, toasts>>

(* ---------------------------- bounds ----------------------------------- *)

\* Most nodes the forest may hold (stored children of every kind counted).
MaxNodes == 3
\* Last value of the millisecond clock read by Date.now().
MaxTime == 1
\* Most copy actions in one session.
MaxCopies == 2

\* Texts typed into the name input.
NameInputs == {"age"}
\* Texts typed into the description input.
DescInputs == {""}
\* Kinds picked in the type Select.
KindInputs == {"string", "object", "array"}
\* Values Date.now() returns: a wall clock, which may stand still between two
\* events and may be set back.
TimeStamps == 0..MaxTime
\* Outcomes of Math.random().toString(36).substr(2, 9).
RandSuffixes == {"k3x", "q9z"}
\* The ids are written and never read by a handler or by generateJsonSchema
\* (they are React keys only): the editing specification creates its nodes
\* within one millisecond and with one suffix, SpecIds varies both.
OneStamp == {0}
OneSuffix == {"k3x"}

(* ---------------------------- SchemaField ------------------------------ *)

FieldType == {"string", "number", "boolean", "object", "array"}

Has(field, key) == key \in DOMAIN field

\* field.properties || []
PropsOrEmpty(field) == IF Has(field, "properties") THEN field.properties ELSE <<>>

\* `field_${Date.now()}_${Math.random().toString(36).substr(2, 9)}`
fieldId(t, r) == <<"field", t, r>>

\* `items_${Date.now()}`
itemsId(t) == <<"items", t>>

newField(id) ==
    [id |-> id, name |-> "newField", type |-> "string", required |-> FALSE]

defaultItems(id) ==
    [id |-> id, name |-> "item", type |-> "string", required |-> FALSE]

initialSchema ==
    << [id |-> <<"field", 1>>, name |-> "name", type |-> "string",
        required |-> TRUE, description |-> "The name of the user"],
       [id |-> <<"field", 2>>, name |-> "age", type |-> "number",
        required |-> FALSE, description |-> "The age of the user"] >>

(* ---------------------------- the editor tree -------------------------- *)

RECURSIVE Descend(_, _)
\* The field handed to the FieldEditor rendered at relative path q below node.
Descend(node, q) ==
    IF q = <<>> THEN node
    ELSE IF Head(q) = 0 THEN Descend(node.items, Tail(q))
    ELSE Descend(node.properties[Head(q)], Tail(q))

NodeAt(sch, p) == Descend(sch[Head(p)], Tail(p))

RECURSIVE SubPaths(_)
\* Relative paths of the FieldEditors rendered for node and below it: the
\* properties of an object field, the items of an array field that has one.
SubPaths(node) ==
    {<<>>}
    \cup (IF node.type = "object"
          THEN UNION {{<<j>> \o q : q \in SubPaths(PropsOrEmpty(node)[j])} :
                      j \in 1..Len(PropsOrEmpty(node))}
          ELSE {})
    \cup (IF node.type = "array" /\ Has(node, "items")
          THEN {<<0>> \o q : q \in SubPaths(node.items)}
          ELSE {})

EditorPaths(sch) ==
    UNION {{<<i>> \o q : q \in SubPaths(sch[i])} : i \in 1..Len(sch)}

RECURSIVE NodeCount(_)
\* Nodes stored in and below node, whatever its kind.
NodeCount(node) ==
    LET props == PropsOrEmpty(node)
        RECURSIVE Sum(_)
        Sum(j) == IF j = 0 THEN 0 ELSE NodeCount(props[j]) + Sum(j - 1)
    IN  1 + Sum(Len(props))
          + (IF Has(node, "items") THEN NodeCount(node.items) ELSE 0)

RECURSIVE ForestCount(_)
ForestCount(sch) ==
    IF sch = <<>> THEN 0 ELSE NodeCount(Head(sch)) + ForestCount(Tail(sch))

(* ---------------------------- FieldEditor handlers --------------------- *)

\* updateField without the spread of field: only the updates reach onUpdate.
updateFieldOnlyUpdates(field, updates) == updates

\* updateField: the field passed to onUpdate, { ...field, ...updates }.
updateField(field, updates) == updates @@ field

\* addProperty
addProperty(field, id) ==
    updateField(field, [properties |-> Append(PropsOrEmpty(field), newField(id))])

\* updateProperty
updateProperty(field, index, updatedProperty) ==
    updateField(field,
        [properties |-> [PropsOrEmpty(field) EXCEPT ![index] = updatedProperty]])

\* The filter with its index off by one when a later child exists.
filterOutNext(seq, index) ==
    [k \in 1..(Len(seq) - 1) |-> IF k <= index THEN seq[k] ELSE seq[k + 1]]

\* field.properties?.filter((_, i) => i !== index) || []
filterOut(seq, index) ==
    [k \in 1..(Len(seq) - 1) |-> IF k < index THEN seq[k] ELSE seq[k + 1]]

\* deleteProperty
deleteProperty(field, index) ==
    updateField(field, [properties |-> filterOut(PropsOrEmpty(field), index)])

\* updateArrayItems
updateArrayItems(field, updatedItems) ==
    updateField(field, [items |-> updatedItems])

\* onValueChange without the initialisation of properties.
onValueChangeNoProperties(field, value, t) ==
    IF value = "array" /\ ~Has(field, "items")
    THEN [type |-> value, items |-> defaultItems(itemsId(t))]
    ELSE [type |-> value]

\* onValueChange without the initialisation of items.
onValueChangeNoItems(field, value, t) ==
    IF value = "object" /\ ~Has(field, "properties")
    THEN [type |-> value, properties |-> <<>>]
    ELSE [type |-> value]

\* onValueChange that starts every object from an empty properties list.
onValueChangeFreshProperties(field, value, t) ==
    LET typeUpdate == [type |-> value]
        withProps == IF value = "object"
                     THEN [properties |-> <<>>] @@ typeUpdate
                     ELSE typeUpdate
    IN  IF value = "array" /\ ~Has(field, "items")
        THEN [items |-> defaultItems(itemsId(t))] @@ withProps
        ELSE withProps

\* The Select's onValueChange: the updates it hands to updateField.
onValueChange(field, value, t) ==
    LET typeUpdate == [type |-> value]
        withProps == IF value = "object" /\ ~Has(field, "properties")
                     THEN [properties |-> <<>>] @@ typeUpdate
                     ELSE typeUpdate
    IN  IF value = "array" /\ ~Has(field, "items")
        THEN [items |-> defaultItems(itemsId(t))] @@ withProps
        ELSE withProps

\* An onDelete of the items slot that removes the items of the first field.
itemsOnDeleteRemoves(sch, p) ==
    [sch EXCEPT ![Head(p)] =
        [k \in DOMAIN sch[Head(p)] \ {"items"} |-> sch[Head(p)][k]]]

\* The onDelete handed to the editor of an array's items: () => {}.
itemsOnDelete(sch, p) == sch

(* ---------------------------- Index handlers --------------------------- *)

\* Index.addField
addField(sch, id) == Append(sch, newField(id))

\* Index.updateField
indexUpdateField(sch, index, updatedField) ==
    [sch EXCEPT ![index] = updatedField]

\* Index.deleteField
deleteField(sch, index) == filterOut(sch, index)

RECURSIVE onUpdate(_, _, _)
\* The chain of onUpdate callbacks from the editor at relative path q below
\* node up to node's own editor: what that editor passes to its onUpdate.
onUpdate(node, q, updated) ==
    IF q = <<>> THEN updated
    ELSE IF Head(q) = 0
    THEN updateArrayItems(node, onUpdate(node.items, Tail(q), updated))
    ELSE updateProperty(node, Head(q),
                        onUpdate(node.properties[Head(q)], Tail(q), updated))

\* The schema set when the editor at path p calls its onUpdate with updated.
setSchemaAt(sch, p, updated) ==
    indexUpdateField(sch, Head(p), onUpdate(sch[Head(p)], Tail(p), updated))

Parent(p) == SubSeq(p, 1, Len(p) - 1)
Last(p) == p[Len(p)]

(* ---------------------------- editing actions -------------------------- *)

\* The handler that ran last and the path of the editor it ran in.
Did(op, p) == [op |-> op, path |-> p]

CopyUnchanged == UNCHANGED <<writes, toasts>>

Init ==
    /\ schema = initialSchema
    /\ last = Did("init", <<>>)
    /\ writes = <<>>
    /\ toasts = <<>>

AddFieldWith(t, r) ==
    /\ ForestCount(schema) < MaxNodes
    /\ schema' = addField(schema, fieldId(t, r))
    /\ last' = Did("add", <<>>)
    /\ CopyUnchanged

AddPropertyAt(p, t, r) ==
    /\ ForestCount(schema) < MaxNodes
    /\ NodeAt(schema, p).type = "object"
    /\ schema' = setSchemaAt(schema, p,
                     addProperty(NodeAt(schema, p), fieldId(t, r)))
    /\ last' = Did("add", <<>>)
    /\ CopyUnchanged

RenameAt(p, text) ==
    /\ schema' = setSchemaAt(schema, p,
                     updateField(NodeAt(schema, p), [name |-> text]))
    /\ last' = Did("update", <<>>)
    /\ CopyUnchanged

DescribeAt(p, text) ==
    /\ schema' = setSchemaAt(schema, p,
                     updateField(NodeAt(schema, p), [description |-> text]))
    /\ last' = Did("update", <<>>)
    /\ CopyUnchanged

ToggleRequiredAt(p) ==
    /\ schema' = setSchemaAt(schema, p,
                     updateField(NodeAt(schema, p),
                                 [required |-> ~NodeAt(schema, p).required]))
    /\ last' = Did("update", <<>>)
    /\ CopyUnchanged

\* The Select reports a change of value: value is not the field's kind.
SwitchKindAt(p, value, t) ==
    LET field == NodeAt(schema, p) IN
    /\ value # field.type
    /\ (value = "array" /\ ~Has(field, "items"))
           => ForestCount(schema) < MaxNodes
    /\ schema' = setSchemaAt(schema, p,
                     updateField(field, onValueChange(field, value, t)))
    /\ last' = Did("type", p)
    /\ CopyUnchanged

DeleteFieldAt(i) ==
    /\ schema' = deleteField(schema, i)
    /\ last' = Did("delete", <<i>>)
    /\ CopyUnchanged

\* Editors whose onDelete is the parent's deleteProperty.
PropertyPaths(sch) == {p \in EditorPaths(sch) : Len(p) > 1 /\ Last(p) > 0}

\* Editors whose onDelete is the empty function of the items slot.
ItemsPaths(sch) == {p \in EditorPaths(sch) : Len(p) > 1 /\ Last(p) = 0}

DeletePropertyAt(p) ==
    /\ schema' = setSchemaAt(schema, Parent(p),
                     deleteProperty(NodeAt(schema, Parent(p)), Last(p)))
    /\ last' = Did("delete", p)
    /\ CopyUnchanged

DeleteItemsAt(p) ==
    /\ schema' = itemsOnDelete(schema, p)
    /\ last' = Did("deleteItems", p)
    /\ CopyUnchanged

AddField(Stamps, Suffixes) ==
    \E t \in Stamps : \E r \in Suffixes : AddFieldWith(t, r)

AddProperty(Stamps, Suffixes) ==
    \E p \in EditorPaths(schema) : \E t \in Stamps : \E r \in Suffixes :
        AddPropertyAt(p, t, r)

Rename == \E p \in EditorPaths(schema) : \E text \in NameInputs : RenameAt(p, text)

Describe == \E p \in EditorPaths(schema) : \E text \in DescInputs : DescribeAt(p, text)

ToggleRequired == \E p \in EditorPaths(schema) : ToggleRequiredAt(p)

SwitchKind(Stamps) ==
    \E p \in EditorPaths(schema) : \E value \in KindInputs : \E t \in Stamps :
        SwitchKindAt(p, value, t)

DeleteField == \E i \in 1..Len(schema) : DeleteFieldAt(i)

DeleteProperty == \E p \in PropertyPaths(schema) : DeletePropertyAt(p)

DeleteItems == \E p \in ItemsPaths(schema) : DeleteItemsAt(p)

\* The editing session: the handlers that shape the forest and decide the
\* `required` lists. The description input is left to SpecUpdate: it writes
\* the description key alone, which no handler reads.
Next ==
    \/ AddField(OneStamp, OneSuffix)
    \/ AddProperty(OneStamp, OneSuffix)
    \/ Rename
    \/ ToggleRequired
    \/ SwitchKind(OneStamp)
    \/ DeleteField
    \/ DeleteProperty
    \/ DeleteItems

Spec == Init /\ [][Next]_vars

\* The four inputs of an editor that update its field, in a forest that grows
\* by properties and items.
NextUpdate ==
    \/ Rename
    \/ Describe
    \/ ToggleRequired
    \/ SwitchKind(OneStamp)
    \/ AddProperty(OneStamp, OneSuffix)

SpecUpdate == Init /\ [][NextUpdate]_vars

\* The handlers that create and remove nodes, with the clock and the random
\* suffix varying.
NextIds ==
    \/ SwitchKind(TimeStamps)
    \/ AddField(TimeStamps, RandSuffixes)
    \/ AddProperty(TimeStamps, RandSuffixes)
    \/ DeleteField
    \/ DeleteProperty
    \/ DeleteItems

SpecIds == Init /\ [][NextIds]_vars

(* ---------------------------- generateJsonSchema ----------------------- *)

RECURSIVE convertField(_)
RECURSIVE forEachField(_, _)

\* The object branch taken on stored properties alone, whatever the kind.
hasObjectSchemaAnyKind(field) == Has(field, "properties")

\* if (field.type === "object" && field.properties)
hasObjectSchema(field) == field.type = "object" /\ Has(field, "properties")

\* if (field.type === "array" && field.items)
hasItemsSchema(field) == field.type = "array" /\ Has(field, "items")

\* The required list attached even when it is empty.
attachRequiredAlways(baseSchema, required) ==
    [required |-> required] @@ baseSchema

\* if (required.length > 0) baseSchema.required = required
attachRequired(baseSchema, required) ==
    IF Len(required) > 0 THEN [required |-> required] @@ baseSchema
    ELSE baseSchema

\* The body of the two forEach loops, over fields from left to right: a later
\* field of the same name overwrites the entry, its name is pushed again.
forEachField(fields, acc) ==
    IF fields = <<>> THEN acc
    ELSE LET field == Head(fields) IN
         forEachField(Tail(fields),
             [properties |-> (field.name :> convertField(field)) @@ acc.properties,
              required |-> IF field.required
                           THEN Append(acc.required, field.name)
                           ELSE acc.required])

NoEntries == [properties |-> <<>>, required |-> <<>>]

convertField(field) ==
    LET baseSchema == [type |-> field.type]
        described ==
            IF Has(field, "description") /\ field.description # ""
            THEN [description |-> field.description] @@ baseSchema
            ELSE baseSchema
        withProperties ==
            IF hasObjectSchema(field)
            THEN LET acc == forEachField(field.properties, NoEntries) IN
                 attachRequired([properties |-> acc.properties] @@ described,
                                acc.required)
            ELSE described
    IN  IF hasItemsSchema(field)
        THEN [items |-> convertField(field.items)] @@ withProperties
        ELSE withProperties

\* if (jsonSchema.required.length === 0) delete jsonSchema.required
deleteEmptyRequired(jsonSchema) ==
    IF Len(jsonSchema.required) = 0
    THEN [type |-> jsonSchema.type, properties |-> jsonSchema.properties]
    ELSE jsonSchema

generateJsonSchema(sch) ==
    LET acc == forEachField(sch, NoEntries) IN
    deleteEmptyRequired(
        [type |-> "object", properties |-> acc.properties, required |-> acc.required])

(* ---------------------------- copyToClipboard -------------------------- *)

\* Index.copyToClipboard: writeText is called and its promise dropped, then
\* the toast is shown, all in the one handler.
copyToClipboard(ws, ts, text) ==
    [writes |-> Append(ws, [text |-> text, state |-> "pending"]),
     toasts |-> Append(ts, [title |-> "Copied!", write |-> Len(ws) + 1])]

CopyToClipboard ==
    /\ Len(writes) < MaxCopies
    /\ LET done == copyToClipboard(writes, toasts, generateJsonSchema(schema)) IN
       /\ writes' = done.writes
       /\ toasts' = done.toasts
    /\ last' = Did("copy", <<>>)
    /\ UNCHANGED schema

\* The clipboard settles a pending write. No handler is attached to the
\* promise: neither outcome runs any code of the page.
WriteFulfilled ==
    /\ \E i \in DOMAIN writes :
         /\ writes[i].state = "pending"
         /\ writes' = [writes EXCEPT ![i].state = "fulfilled"]
    /\ UNCHANGED <<schema, last, toasts>>

WriteRejected ==
    /\ \E i \in DOMAIN writes :
         /\ writes[i].state = "pending"
         /\ writes' = [writes EXCEPT ![i].state = "rejected"]
    /\ UNCHANGED <<schema, last, toasts>>

\* The session with the clipboard: root fields come and go, the schema is
\* copied, the clipboard answers.
NextCopy ==
    \/ CopyToClipboard
    \/ WriteFulfilled
    \/ WriteRejected
    \/ AddField(OneStamp, OneSuffix)
    \/ ToggleRequired
    \/ DeleteField

SpecCopy == Init /\ [][NextCopy]_vars

(* ---------------------------- properties -------------------------------- *)

RECURSIVE NodesBelow(_)
\* Every node stored in or below node, rendered or not.
NodesBelow(node) ==
    {node}
    \cup UNION {NodesBelow(PropsOrEmpty(node)[j]) : j \in 1..Len(PropsOrEmpty(node))}
    \cup (IF Has(node, "items") THEN NodesBelow(node.items) ELSE {})

AllNodes(sch) == UNION {NodesBelow(sch[i]) : i \in 1..Len(sch)}

\* The names of the required children, in the order of the children.
RequiredNames(children) ==
    LET picked == SelectSeq(children, LAMBDA c : c.required)
    IN  [k \in 1..Len(picked) |-> picked[k].name]

RequiredKeyRight(compiled, children) ==
    /\ Has(compiled, "required") <=> \E k \in 1..Len(children) : children[k].required
    /\ Has(compiled, "required") => compiled.required = RequiredNames(children)

\* C1: at the root of the compiled schema and at every node of kind object,
\* the `required` key is present iff some direct child is required, and then
\* lists the names of the required direct children in the children's order.
C1_RequiredKey ==
    /\ RequiredKeyRight(generateJsonSchema(schema), schema)
    /\ \A n \in AllNodes(schema) :
         n.type = "object" => RequiredKeyRight(convertField(n), PropsOrEmpty(n))

\* An object node two of whose properties are required, and a root with a
\* required field, after an update.
C1_Witness ==
    /\ last.op = "update"
    /\ \E k \in 1..Len(schema) : schema[k].required
    /\ \E n \in AllNodes(schema) :
         /\ n.type = "object"
         /\ Len(PropsOrEmpty(n)) = 2
         /\ n.properties[1].required /\ n.properties[2].required
         /\ n.properties[1].name # n.properties[2].name

\* C2 as stated: every node has `properties` iff its kind is object.
C2_PropertiesIffObject ==
    \A n \in AllNodes(schema) : Has(n, "properties") <=> n.type = "object"

\* C2 as amended: every node of kind object has `properties`.
C2_ObjectHasProperties ==
    \A n \in AllNodes(schema) : n.type = "object" => Has(n, "properties")

\* A node was just switched to object.
C2_Witness ==
    /\ last.op = "type"
    /\ NodeAt(schema, last.path).type = "object"

\* C3 as stated: every node has `items` iff its kind is array.
C3_ItemsIffArray ==
    \A n \in AllNodes(schema) : Has(n, "items") <=> n.type = "array"

\* C3 as amended: every node of kind array has `items`.
C3_ArrayHasItems ==
    \A n \in AllNodes(schema) : n.type = "array" => Has(n, "items")

\* A node was just switched to array.
C3_Witness ==
    /\ last.op = "type"
    /\ NodeAt(schema, last.path).type = "array"

\* What the Select's handler makes of the field at path p when value is picked.
Switched(sch, p, value, t) ==
    setSchemaAt(sch, p,
        updateField(NodeAt(sch, p), onValueChange(NodeAt(sch, p), value, t)))

\* C4: switching an object node to any other kind and straight back to object
\* leaves it with the same properties sequence.
C4_KindRoundTrip ==
    \A p \in EditorPaths(schema) :
        NodeAt(schema, p).type = "object" =>
            \A value \in FieldType \ {"object"} : \A t \in TimeStamps :
                LET away == Switched(schema, p, value, t)
                    back == Switched(away, p, "object", t)
                IN  /\ NodeAt(away, p).type = value
                    /\ NodeAt(back, p).type = "object"
                    /\ NodeAt(back, p).properties = NodeAt(schema, p).properties

\* A node that was not an object was just switched to object and shows the
\* properties it held before.
C4_Witness ==
    /\ last.op = "type"
    /\ NodeAt(schema, last.path).type = "object"
    /\ Len(NodeAt(schema, last.path).properties) > 0

\* new is old without its element at index i.
DeletedAt(old, new, i) ==
    /\ Len(new) = Len(old) - 1
    /\ \A k \in 1..Len(old) :
         /\ k < i => new[k] = old[k]
         /\ k > i => new[k - 1] = old[k]

\* C5: deleting index i from the root sequence or from an object's properties
\* keeps the children before i in place, moves those after i down by one, and
\* removes or alters no other child.
C5_DeleteShifts ==
    [][ /\ \A i \in 1..Len(schema) :
             DeleteFieldAt(i) => DeletedAt(schema, schema', i)
        /\ \A p \in PropertyPaths(schema) :
             DeletePropertyAt(p) =>
                 /\ Parent(p) \in EditorPaths(schema')
                 /\ DeletedAt(NodeAt(schema, Parent(p)).properties,
                              NodeAt(schema', Parent(p)).properties, Last(p)) ]_vars

\* A property other than the last one of its object was just deleted.
C5_Witness ==
    /\ last.op = "delete"
    /\ Len(last.path) > 1
    /\ Last(last.path) <= Len(NodeAt(schema, Parent(last.path)).properties)

\* C7: delete on the items node of an array field changes nothing in the
\* forest; the array keeps its items.
C7_ItemsDeleteNoOp ==
    [][ \A p \in ItemsPaths(schema) : DeleteItemsAt(p) => schema' = schema ]_vars

\* Delete was just invoked on the items of an array field.
C7_Witness ==
    /\ last.op = "deleteItems"
    /\ NodeAt(schema, Parent(last.path)).type = "array"
    /\ Has(NodeAt(schema, Parent(last.path)), "items")

\* C6: all nodes of the forest, default items nodes included, have pairwise
\* distinct ids.
C6_IdsUnique ==
    Cardinality({n.id : n \in AllNodes(schema)}) = ForestCount(schema)

\* C8: a confirmation is shown only for a write that has succeeded, and a
\* rejected write is reported by a notification of its own.
C8_CopyReportsOutcome ==
    \A i \in DOMAIN writes :
        /\ (\E k \in DOMAIN toasts :
               toasts[k].write = i /\ toasts[k].title = "Copied!")
               => writes[i].state = "fulfilled"
        /\ writes[i].state = "rejected"
               => \E k \in DOMAIN toasts :
                      toasts[k].write = i /\ toasts[k].title # "Copied!"

\* old and new agree on every key outside keys, present or absent alike.
SameOutside(old, new, keys) ==
    \A k \in (DOMAIN old \cup DOMAIN new) \ keys :
        /\ k \in DOMAIN old /\ k \in DOMAIN new
        /\ old[k] = new[k]

RECURSIVE FrameNode(_, _, _, _)
\* new is old with nothing changed but the keys of the node at relative path
\* q: each ancestor keeps its own fields and its other children.
FrameNode(old, new, q, keys) ==
    IF q = <<>> THEN SameOutside(old, new, keys)
    ELSE IF Head(q) = 0
    THEN /\ SameOutside(old, new, {"items"})
         /\ Has(new, "items")
         /\ FrameNode(old.items, new.items, Tail(q), keys)
    ELSE /\ SameOutside(old, new, {"properties"})
         /\ Has(new, "properties")
         /\ Len(new.properties) = Len(old.properties)
         /\ \A k \in 1..Len(old.properties) :
              IF k = Head(q)
              THEN FrameNode(old.properties[k], new.properties[k], Tail(q), keys)
              ELSE new.properties[k] = old.properties[k]

FrameForest(old, new, p, keys) ==
    /\ Len(new) = Len(old)
    /\ \A k \in 1..Len(old) :
         IF k = Head(p) THEN FrameNode(old[k], new[k], Tail(p), keys)
         ELSE new[k] = old[k]

\* The keys a kind switch names in its update.
SwitchKeys(field, value) ==
    {"type"}
    \cup (IF value = "object" /\ ~Has(field, "properties") THEN {"properties"} ELSE {})
    \cup (IF value = "array" /\ ~Has(field, "items") THEN {"items"} ELSE {})

C10_KeysFollowKind ==
    \A n \in AllNodes(schema) :
        LET compiled == convertField(n) IN
        /\ Has(compiled, "properties") <=> n.type = "object"
        /\ Has(compiled, "required") => n.type = "object"
        /\ Has(compiled, "items") <=> n.type = "array"

\* A node that is no object still stores properties, and a node that is no
\* array still stores items.
C10_Witness ==
    /\ \E n \in AllNodes(schema) :
         n.type # "object" /\ Has(n, "properties") /\ Len(n.properties) > 0
    /\ \E n \in AllNodes(schema) : n.type # "array" /\ Has(n, "items")

====
